---- MODULE Spec2Model ----
(***************************************************************************)
(* The VTEC charger dashboard: the two warehouse queries (db_queries.py)   *)
(* and one run of app() (streamlit_app.py): fetch, date filter, pivot and  *)
(* totals, day-of-week chart.                                              *)
(***************************************************************************)
EXTENDS Integers, Sequences, FiniteSets, TLC

VARIABLES
    facts,            \* rows of <schema>.fact_meter_readings in the warehouse
    pc,               \* position of the run of app()
    fault,            \* "none", or the unhandled exception that ended the run
    open,             \* connections created and not closed
    nconn,            \* connections created so far in the run
    nquery,           \* nquery[c]: queries executed on connection c
    df_base,          \* result of the monthly query (set of rows)
    df_daily,         \* result of the daily query (sequence of rows)
    start_date,       \* None until the sidebar's date input sets it
    end_date,
    warnings,         \* st.warning messages shown
    charts,           \* charts and tables rendered
    filtered_monthly, \* filtered_df of the monthly section
    filtered_daily,   \* filtered_df of the day-of-week section
    table,            \* df_totals: the pivoted table with its totals
    chart_x           \* categories of the day-of-week chart's x axis, in order

vars == <<facts, pc, fault, open, nconn, nquery, df_base, df_daily, start_date,
          end_date, warnings, charts, filtered_monthly, filtered_daily, table,
          chart_x>>

----------------------------------------------------------------------------
(* Bounds *)

MaxFacts == 2
RunLength == 33
MaxPerDay == 2

Meters == <<"M1", "M2">>
Kwhs == {0, 50, 100}
Years == {2023, 2024}

None == <<>>
NoTable == [index |-> <<>>, columns |-> <<>>, cell |-> <<>>]

----------------------------------------------------------------------------
(* Calendar: what EXTRACT, date_trunc and strftime compute on a timestamp  *)
(* [y, m, d, h].                                                           *)

IsLeap(y) == (y % 4 = 0 /\ y % 100 # 0) \/ y % 400 = 0

DaysInMonth(y, m) ==
    IF m = 2 THEN (IF IsLeap(y) THEN 29 ELSE 28)
    ELSE IF m \in {4, 6, 9, 11} THEN 30 ELSE 31

NextDay(t) ==
    IF t.d < DaysInMonth(t.y, t.m) THEN [t EXCEPT !.d = t.d + 1]
    ELSE IF t.m < 12 THEN [t EXCEPT !.m = t.m + 1, !.d = 1]
    ELSE [t EXCEPT !.y = t.y + 1, !.m = 1, !.d = 1]

RECURSIVE AddDays(_, _)
AddDays(t, n) == IF n = 0 THEN t ELSE AddDays(NextDay(t), n - 1)

\* date_trunc('month', ts): the first day of the month, as a date <<y, m, d>>
date_trunc_month(t) == <<t.y, t.m, 1>>

\* 0 = Sunday .. 6 = Saturday
DayOfWeek(t) ==
    LET off == <<0, 3, 2, 5, 0, 3, 5, 1, 4, 6, 2, 4>>
        y   == IF t.m < 3 THEN t.y - 1 ELSE t.y
    IN (y + (y \div 4) - (y \div 100) + (y \div 400) + off[t.m] + t.d) % 7

WeekdayNames ==
    <<"Sunday", "Monday", "Tuesday", "Wednesday", "Thursday", "Friday", "Saturday">>

\* strftime(ts, '%A')
strftime_A(t) == WeekdayNames[DayOfWeek(t) + 1]

\* strftime(ts, '%Y')
strftime_Y(t) == ToString(t.y)

\* Series.astype(int) on the year strings
astype_int(s) == CHOOSE y \in Years : ToString(y) = s

\* datetime.date comparison
DateLE(a, b) ==
    \/ a[1] < b[1]
    \/ a[1] = b[1] /\ a[2] < b[2]
    \/ a[1] = b[1] /\ a[2] = b[2] /\ a[3] <= b[3]

RECURSIVE SumOver(_, _)
SumOver(S, f) ==
    IF S = {} THEN 0
    ELSE LET x == CHOOSE x \in S : TRUE IN f[x] + SumOver(S \ {x}, f)

----------------------------------------------------------------------------
(* db_queries.py *)

MonthlyGroups(rows) ==
    {<<r.end_date_time.y, r.end_date_time.m, r.meter_name>> : r \in rows}

GroupRows(rows, g) ==
    {r \in rows : /\ r.end_date_time.y = g[1]
                  /\ r.end_date_time.m = g[2]
                  /\ r.meter_name = g[3]}

SumUsage(rows) == SumOver(rows, [r \in rows |-> r.total_usage_kwh])

\* COUNT(*) FILTER (WHERE total_usage_kwh > 0): DISTINCT day dropped
ChargingEventsNoDistinct(rows) ==
    Cardinality({q \in rows : q.total_usage_kwh > 0})

\* COUNT(DISTINCT EXTRACT(DAY FROM end_date_time)) FILTER (WHERE total_usage_kwh > 0)
ChargingEvents(rows) ==
    Cardinality({r.end_date_time.d : r \in {q \in rows : q.total_usage_kwh > 0}})

get_query_monthly_kwh_and_charge_event(rows) ==
    {[month            |-> date_trunc_month([y |-> g[1], m |-> g[2], d |-> 1, h |-> 0]),
      year_no          |-> g[1],
      month_no         |-> g[2],
      meter_name       |-> g[3],
      charging_events  |-> ChargingEvents(GroupRows(rows, g)),
      total_usage_kwh  |-> SumUsage(GroupRows(rows, g))] : g \in MonthlyGroups(rows)}

DailyGroups(rows) ==
    {<<strftime_Y(r.end_date_time), strftime_A(r.end_date_time), r.meter_name>> :
        r \in {q \in rows : q.total_usage_kwh > 0}}

DailyGroupRows(rows, g) ==
    {r \in rows : /\ r.total_usage_kwh > 0
                  /\ strftime_Y(r.end_date_time) = g[1]
                  /\ strftime_A(r.end_date_time) = g[2]
                  /\ r.meter_name = g[3]}

get_query_daily_kwh(rows) ==
    {[year            |-> g[1],
      day_name        |-> g[2],
      meter_name      |-> g[3],
      total_usage_kwh |-> SumUsage(DailyGroupRows(rows, g))] : g \in DailyGroups(rows)}

MeterRank(m) == CHOOSE i \in 1..Len(Meters) : Meters[i] = m

\* ORDER BY meter_name, year
DailyOrderLE(r, q) ==
    \/ MeterRank(r.meter_name) < MeterRank(q.meter_name)
    \/ r.meter_name = q.meter_name /\ astype_int(r.year) <= astype_int(q.year)

\* The orders in which the warehouse may return the rows: ORDER BY fixes the
\* order by meter and year and leaves the order of the days within them open.
DailyOrderings(S) ==
    {s \in [1..Cardinality(S) -> S] :
        /\ \A x \in S : \E i \in DOMAIN s : s[i] = x
        /\ \A i, j \in DOMAIN s : i < j => DailyOrderLE(s[i], s[j])}

----------------------------------------------------------------------------
(* The monthly query on dense runs of readings *)

RunStart == [y |-> 2024, m |-> 1, d |-> 30, h |-> 0]

RunDays == [i \in 0..(RunLength - 1) |-> AddDays(RunStart, i)]

Untouched ==
    /\ fault = "none" /\ open = {} /\ nconn = 0 /\ nquery = <<>>
    /\ df_daily = <<>> /\ start_date = None /\ end_date = None
    /\ warnings = {} /\ charts = {} /\ filtered_monthly = {}
    /\ filtered_daily = <<>> /\ table = NoTable /\ chart_x = <<>>

InitQuery ==
    /\ \E a \in 0..(RunLength - 1) : \E b \in a..(RunLength - 1) :
       \E n \in 1..MaxPerDay : \E k1 \in Kwhs : \E k2 \in Kwhs :
       \E meter \in {Meters[i] : i \in DOMAIN Meters} :
          facts = {[end_date_time   |-> [RunDays[i] EXCEPT !.h = hh],
                    meter_name      |-> meter,
                    total_usage_kwh |-> IF i % 2 = 0 THEN k1 ELSE k2] :
                      i \in a..b, hh \in 1..n}
    /\ pc = "loaded"
    /\ df_base = {}
    /\ Untouched

RunMonthlyQuery ==
    /\ pc = "loaded"
    /\ df_base' = get_query_monthly_kwh_and_charge_event(facts)
    /\ pc' = "queried"
    /\ UNCHANGED <<facts, fault, open, nconn, nquery, df_daily, start_date,
                   end_date, warnings, charts, filtered_monthly, filtered_daily,
                   table, chart_x>>

NextQuery == RunMonthlyQuery

SpecQuery == InitQuery /\ [][NextQuery]_vars

\* C6: every monthly charging-event count is at most the number of days of
\* its month.
C6_EventsWithinMonth ==
    \A r \in df_base : r.charging_events <= DaysInMonth(r.year_no, r.month_no)

\* All 29 days of February 2024 carry usage, twice a day: the count is 29.
C6_Witness ==
    /\ pc = "queried"
    /\ Cardinality(facts) > 29
    /\ \E r \in df_base : r.month_no = 2 /\ r.charging_events = 29

----------------------------------------------------------------------------
(* streamlit_app.py: reshaping.  A frame is [index, columns, cell]: the    *)
(* row labels and the column labels in order, and cell[<<row, column>>],   *)
(* <<v>> for a number v and NaN for a missing value.                       *)

NaN == <<>>

Range(s) == {s[i] : i \in DOMAIN s}

\* DataFrame.sum skips NaN
CellValue(c) == IF c = NaN THEN 0 ELSE c[1]

\* values=[...] of pivot_table
Metrics == <<"charging_events", "total_usage_kwh">>

MetricRank(x) == CHOOSE i \in 1..Len(Metrics) : Metrics[i] = x

PeriodLE(a, b) == a[1] < b[1] \/ (a[1] = b[1] /\ a[2] <= b[2])

RECURSIVE SortPeriods(_)
SortPeriods(S) ==
    IF S = {} THEN <<>>
    ELSE LET x == CHOOSE x \in S : \A y \in S : PeriodLE(x, y)
         IN <<x>> \o SortPeriods(S \ {x})

\* the column labels (meter_name, metric) in lexicographic order
ColumnLE(a, b) ==
    \/ MeterRank(a[1]) < MeterRank(b[1])
    \/ a[1] = b[1] /\ MetricRank(a[2]) <= MetricRank(b[2])

RECURSIVE SortColumns(_)
SortColumns(S) ==
    IF S = {} THEN <<>>
    ELSE LET x == CHOOSE x \in S : \A y \in S : ColumnLE(x, y)
         IN <<x>> \o SortColumns(S \ {x})

\* .fillna(0) left out
fillna_missing(cell) == cell

\* .fillna(0)
fillna(cell) == [k \in DOMAIN cell |-> IF cell[k] = NaN THEN <<0>> ELSE cell[k]]

\* df.pivot_table(index=['year_no','month_no'], columns='meter_name',
\*                values=[...], aggfunc='sum').fillna(0)
get_pivot_monthly_summary(df) ==
    LET periods == SortPeriods({<<r.year_no, r.month_no>> : r \in df})
        meters  == {r.meter_name : r \in df}
        under(mt) == [i \in DOMAIN Meters |-> <<mt, Meters[i]>>]
        columns == SelectSeq(under(Metrics[1]) \o under(Metrics[2]),
                             LAMBDA c : c[2] \in meters)
        group(p, c) == {r \in df : /\ r.year_no = p[1] /\ r.month_no = p[2]
                                   /\ r.meter_name = c[2]}
        agg(p, c) ==
            IF group(p, c) = {} THEN NaN
            ELSE <<SumOver(group(p, c), [r \in group(p, c) |-> r[c[1]]])>>
    IN [index   |-> periods,
        columns |-> columns,
        cell    |-> fillna([k \in Range(periods) \X Range(columns) |->
                              agg(k[1], k[2])])]

\* columns.swaplevel(0, 1), then sort_index(axis=1, level=0)
swap_and_sort_columns(df) ==
    LET swapped == [i \in DOMAIN df.columns |-> <<df.columns[i][2], df.columns[i][1]>>]
    IN [index   |-> df.index,
        columns |-> SortColumns(Range(swapped)),
        cell    |-> [k \in Range(df.index) \X Range(swapped) |->
                        df.cell[<<k[1], <<k[2][2], k[2][1]>>>>]]]

\* the labels set the other way round
TotalLabelsSwapped == <<"Total Usage (kWh)", "Charging Events">>

\* df_totals_row.columns = [...]
TotalLabels == <<"Charging Events", "Total Usage (kWh)">>

\* tuple(str(i) for i in idx)
str_index(idx) == <<ToString(idx[1]), ToString(idx[2])>>

TotalIndex == <<"Total", "">>

\* columns.get_level_values(1).unique().to_list()
RECURSIVE unique(_)
unique(s) ==
    IF s = <<>> THEN <<>>
    ELSE LET front == unique(SubSeq(s, 1, Len(s) - 1))
         IN IF s[Len(s)] \in Range(front) THEN front ELSE Append(front, s[Len(s)])

level_values_1(columns) == [i \in DOMAIN columns |-> columns[i][2]]

\* df.iloc[:-1].sum(axis=0): the last period row left out of the totals
with_totals_row_skipping_last(df) ==
    LET index == [i \in DOMAIN df.index |-> str_index(df.index[i])] \o <<TotalIndex>>
        front == Range(SubSeq(df.index, 1, Len(df.index) - 1))
    IN [index   |-> index,
        columns |-> df.columns,
        cell    |-> [k \in Range(index) \X Range(df.columns) |->
                       IF k[1] = TotalIndex
                       THEN <<SumOver(front, [p \in front |->
                                          CellValue(df.cell[<<p, k[2]>>])])>>
                       ELSE LET p == CHOOSE p \in Range(df.index) : str_index(p) = k[1]
                            IN df.cell[<<p, k[2]>>]]]

\* totals = df.sum(axis=0); concat; index mapped to strings (lines 132-136)
with_totals_row(df) ==
    LET index == [i \in DOMAIN df.index |-> str_index(df.index[i])] \o <<TotalIndex>>
    IN [index   |-> index,
        columns |-> df.columns,
        cell    |-> [k \in Range(index) \X Range(df.columns) |->
                       IF k[1] = TotalIndex
                       THEN <<SumOver(Range(df.index),
                                      [p \in Range(df.index) |->
                                          CellValue(df.cell[<<p, k[2]>>])])>>
                       ELSE LET p == CHOOSE p \in Range(df.index) : str_index(p) = k[1]
                            IN df.cell[<<p, k[2]>>]]]

\* df.xs(col, axis=1, level=1).sum(axis=1)
xs_sum(df, col, row) ==
    LET sel == {c \in Range(df.columns) : c[2] = col}
    IN SumOver(sel, [c \in sel |-> CellValue(df.cell[<<row, c>>])])

\* assigning two labels to a frame that has not two columns raises ValueError
get_totals_raises(df) == Len(unique(level_values_1(df.columns))) # Len(TotalLabels)

get_totals(df) ==
    LET df1   == with_totals_row(df)
        cols  == unique(level_values_1(df1.columns))
        added == [i \in DOMAIN cols |-> <<"Total", TotalLabels[i]>>]
    IN [index   |-> df1.index,
        columns |-> df1.columns \o added,
        cell    |-> [k \in Range(df1.index) \X (Range(df1.columns) \cup Range(added)) |->
                       IF k[2] \in Range(df1.columns) THEN df1.cell[k]
                       ELSE LET i == CHOOSE i \in DOMAIN added : added[i] = k[2]
                            IN <<xs_sum(df1, cols[i], k[1])>>]]

\* lines 273-308 of app() on a selection without rows: the pivot has no
\* columns, render_metrics_all_time asks for st.columns(0), and get_totals
\* assigns two labels to no column: the run ends in an exception at line 147
\* at the latest
monthly_views_raise(filtered_df) ==
    get_totals_raises(swap_and_sort_columns(get_pivot_monthly_summary(filtered_df)))

\* lines 273-277 and 308 of app(): the table handed to render_df_monthly_summary
monthly_summary_table(filtered_df) ==
    get_totals(swap_and_sort_columns(get_pivot_monthly_summary(filtered_df)))

----------------------------------------------------------------------------
(* Pivot and totals on monthly result sets *)

Periods == {<<2023, 12>>, <<2024, 1>>, <<2024, 2>>}

\* <<total_usage_kwh, charging_events>> of a monthly row
RowValues == {<<0, 0>>, <<50, 3>>, <<100, 5>>}

MonthlyRow(p, meter, v) ==
    [month |-> <<p[1], p[2], 1>>, year_no |-> p[1], month_no |-> p[2],
     meter_name |-> meter, charging_events |-> v[2], total_usage_kwh |-> v[1]]

InitPivot ==
    /\ \E present \in SUBSET (Periods \X Range(Meters)) :
       \E val \in [present -> RowValues] :
          /\ present # {}
          /\ df_base = {MonthlyRow(k[1], k[2], val[k]) : k \in present}
    /\ pc = "fetched"
    /\ facts = {}
    /\ Untouched

PivotAndTotals ==
    /\ pc = "fetched"
    /\ filtered_monthly' = df_base
    /\ table' = monthly_summary_table(df_base)
    /\ charts' = charts \cup {"summary_table"}
    /\ pc' = "rendered"
    /\ UNCHANGED <<facts, fault, open, nconn, nquery, df_base, df_daily,
                   start_date, end_date, warnings, filtered_daily, chart_x>>

NextPivot == PivotAndTotals

SpecPivot == InitPivot /\ [][NextPivot]_vars

PeriodRows == Range(table.index) \ {TotalIndex}

MeterColumns(metric) == {c \in Range(table.columns) : c[1] # "Total" /\ c[2] = metric}

TotalColumn(metric) ==
    <<"Total", IF metric = "charging_events" THEN "Charging Events"
               ELSE "Total Usage (kWh)">>

InputPeriods == {<<ToString(r.year_no), ToString(r.month_no)>> : r \in filtered_monthly}

InputMeters == {r.meter_name : r \in filtered_monthly}

InputRows(row, meter) ==
    {r \in filtered_monthly : /\ <<ToString(r.year_no), ToString(r.month_no)>> = row
                              /\ r.meter_name = meter}

\* C1: on every period row, the Total column of each metric is the sum of
\* that metric's per-meter cells of the row.
C1_TotalColumnIsRowSum ==
    table # NoTable =>
      \A row \in PeriodRows : \A metric \in Range(Metrics) :
        /\ <<row, TotalColumn(metric)>> \in DOMAIN table.cell
        /\ table.cell[<<row, TotalColumn(metric)>>] =
             <<SumOver(MeterColumns(metric),
                       [c \in MeterColumns(metric) |-> table.cell[<<row, c>>][1]])>>

\* The spec's example: M1 100 kWh / 5 events and M2 50 / 3 in January 2024
\* give Total 150 kWh and 8 events.
C1_Witness ==
    /\ pc = "rendered"
    /\ <<<<"2024", "1">>, <<"M1", "total_usage_kwh">>>> \in DOMAIN table.cell
    /\ <<<<"2024", "1">>, <<"M2", "total_usage_kwh">>>> \in DOMAIN table.cell
    /\ table.cell[<<<<"2024", "1">>, <<"M1", "total_usage_kwh">>>>] = <<100>>
    /\ table.cell[<<<<"2024", "1">>, <<"M1", "charging_events">>>>] = <<5>>
    /\ table.cell[<<<<"2024", "1">>, <<"M2", "total_usage_kwh">>>>] = <<50>>
    /\ table.cell[<<<<"2024", "1">>, <<"M2", "charging_events">>>>] = <<3>>
    /\ table.cell[<<<<"2024", "1">>, <<"Total", "Total Usage (kWh)">>>>] = <<150>>
    /\ table.cell[<<<<"2024", "1">>, <<"Total", "Charging Events">>>>] = <<8>>

\* C4: every period and every meter of the input have a cell for both
\* metrics, a number, which is 0 where the input has no row for the two.
C4_MissingFilledWithZero ==
    table # NoTable =>
      \A row \in InputPeriods : \A meter \in InputMeters : \A metric \in Range(Metrics) :
        /\ <<row, <<meter, metric>>>> \in DOMAIN table.cell
        /\ table.cell[<<row, <<meter, metric>>>>] # NaN
        /\ InputRows(row, meter) = {} => table.cell[<<row, <<meter, metric>>>>] = <<0>>

\* A table with its totals in which a period has no row for a meter.
C4_Witness ==
    /\ pc = "rendered"
    /\ TotalIndex \in Range(table.index)
    /\ \E row \in InputPeriods : \E meter \in InputMeters :
         /\ InputRows(row, meter) = {}
         /\ table.cell[<<row, <<meter, "total_usage_kwh">>>>] = <<0>>

\* C5: the Total row holds, for every column, the sum of the column over the
\* period rows; the Total cell of a Total column is the sum of all the
\* per-meter cells of the metric.
C5_TotalRowIsColumnSum ==
    table # NoTable =>
      /\ TotalIndex \in Range(table.index)
      /\ \A c \in Range(table.columns) :
           table.cell[<<TotalIndex, c>>] =
             <<SumOver(PeriodRows, [row \in PeriodRows |-> table.cell[<<row, c>>][1]])>>
      /\ \A metric \in Range(Metrics) :
           table.cell[<<TotalIndex, TotalColumn(metric)>>] =
             <<SumOver(PeriodRows \X MeterColumns(metric),
                       [k \in PeriodRows \X MeterColumns(metric) |->
                           table.cell[<<k[1], k[2]>>][1]])>>

\* Two periods and two meters with usage: the grand total of kWh is 300.
C5_Witness ==
    /\ pc = "rendered"
    /\ Cardinality(PeriodRows) >= 2
    /\ Cardinality(MeterColumns("total_usage_kwh")) = 2
    /\ table.cell[<<TotalIndex, <<"Total", "Total Usage (kWh)">>>>] = <<300>>
    /\ table.cell[<<TotalIndex, <<"M1", "total_usage_kwh">>>>] = <<200>>

----------------------------------------------------------------------------
(* streamlit_app.py: one run of app() against a warehouse that the         *)
(* ingestion pipeline may extend while the run fetches.                    *)

Stamps ==
    {[y |-> 2023, m |-> 12, d |-> 31, h |-> 12],
     [y |-> 2024, m |-> 1,  d |-> 1,  h |-> 12],
     [y |-> 2024, m |-> 2,  d |-> 29, h |-> 12]}

\* date.today() of the run
Today == <<2024, 3, 15>>

\* the dates the user may pick in a date input
DateChoices == {<<2023, 12, 1>>, <<2023, 12, 31>>, <<2024, 2, 1>>, Today}

\* df_base['month'].min()
MinMonth(df) ==
    CHOOSE d \in {r.month : r \in df} : \A r \in df : DateLE(d, r.month)

Init ==
    /\ facts = {}
    /\ pc = "monthly_connect"
    /\ df_base = {}
    /\ Untouched

\* the ingestion pipeline inserts a reading; what it inserts after the last
\* query of the run has no effect on the run
Ingest ==
    /\ pc \in {"monthly_connect", "monthly_query", "monthly_close",
               "daily_connect", "daily_query"}
    /\ Cardinality(facts) < MaxFacts
    /\ \E t \in Stamps : \E meter \in Range(Meters) : \E k \in Kwhs :
         facts' = facts \cup {[end_date_time |-> t, meter_name |-> meter,
                               total_usage_kwh |-> k]}
    /\ UNCHANGED <<pc, fault, open, nconn, nquery, df_base, df_daily, start_date,
                   end_date, warnings, charts, filtered_monthly, filtered_daily,
                   table, chart_x>>

\* conn = create_connection(): duckdb.connect returns a new connection or raises
create_connection ==
    /\ pc \in {"monthly_connect", "daily_connect"}
    /\ \/ /\ nconn' = nconn + 1
          /\ open' = open \cup {nconn + 1}
          /\ nquery' = Append(nquery, 0)
          /\ pc' = IF pc = "monthly_connect" THEN "monthly_query" ELSE "daily_query"
          /\ fault' = fault
       \/ /\ pc' = "fault"
          /\ fault' = "ConnectionError"
          /\ UNCHANGED <<open, nconn, nquery>>
    /\ UNCHANGED <<facts, df_base, df_daily, start_date, end_date, warnings, charts,
                   filtered_monthly, filtered_daily, table, chart_x>>

\* df = pd.read_sql_query(query, conn): the rows, or an exception that leaves
\* get_df_from_db before conn.close()
read_sql_query ==
    /\ pc \in {"monthly_query", "daily_query"}
    /\ \/ /\ nquery' = [nquery EXCEPT ![nconn] = @ + 1]
          /\ \/ /\ pc = "monthly_query"
                /\ df_base' = get_query_monthly_kwh_and_charge_event(facts)
                /\ df_daily' = df_daily
                /\ pc' = "monthly_close"
             \/ /\ pc = "daily_query"
                /\ df_daily' \in DailyOrderings(get_query_daily_kwh(facts))
                /\ df_base' = df_base
                /\ pc' = "daily_close"
          /\ fault' = fault
       \/ /\ pc' = "fault"
          /\ fault' = "QueryError"
          /\ UNCHANGED <<nquery, df_base, df_daily>>
    /\ UNCHANGED <<facts, open, nconn, start_date, end_date, warnings, charts,
                   filtered_monthly, filtered_daily, table, chart_x>>

\* conn.close(); return df
conn_close ==
    /\ pc \in {"monthly_close", "daily_close"}
    /\ open' = open \ {nconn}
    /\ pc' = IF pc = "monthly_close" THEN "daily_connect" ELSE "monthly_section"
    /\ UNCHANGED <<facts, fault, nconn, nquery, df_base, df_daily, start_date,
                   end_date, warnings, charts, filtered_monthly, filtered_daily,
                   table, chart_x>>

get_df_from_db == create_connection \/ read_sql_query \/ conn_close

InRange(d, start, end) == DateLE(start, d) /\ DateLE(d, end)

\* the range filter applied whatever the order of the two dates
filter_monthly_no_fallback(df, start, end) ==
    {r \in df : InRange(r.month, start, end)}

\* df_base['month'] > start_date: the first month of the range left out
filter_monthly_exclusive(df, start, end) ==
    IF DateLE(start, end)
    THEN {r \in df : ~DateLE(r.month, start) /\ DateLE(r.month, end)}
    ELSE df

\* lines 260-263
filter_monthly(df, start, end) ==
    IF DateLE(start, end)
    THEN {r \in df : InRange(r.month, start, end)}
    ELSE df

\* the list the other way round: the week starting on Monday
day_order_monday_first ==
    <<"Monday", "Tuesday", "Wednesday", "Thursday", "Friday", "Saturday", "Sunday">>

day_order ==
    <<"Sunday", "Monday", "Tuesday", "Wednesday", "Thursday", "Friday", "Saturday">>

\* pd.Categorical(values, categories=day_order, ordered=True): a value that is
\* no category becomes NaN
Categorical(df) ==
    [i \in DOMAIN df |->
        IF df[i].day_name \in Range(day_order) THEN df[i]
        ELSE [df[i] EXCEPT !.day_name = "NaN"]]

\* lines 320-332: the rows of the years in range, a copy that line 332 does
\* not touch; or df_daily itself, whose day_name line 332 then replaces
filter_daily(df, start, end) ==
    IF DateLE(start, end)
    THEN SelectSeq(df, LAMBDA r : /\ astype_int(r.year) >= start[1]
                                 /\ astype_int(r.year) <= end[1])
    ELSE Categorical(df)

\* alt.X('day_name:N', sort=...): the values of the field that the sort list
\* names, in the list's order, then the others as they come in the data
x_axis(rows, sort) ==
    LET names == [i \in DOMAIN rows |-> rows[i].day_name]
    IN SelectSeq(sort, LAMBDA n : n \in Range(names))
         \o SelectSeq(unique(names), LAMBDA n : n \notin Range(sort))

\* lines 206-310 of app()
app_monthly_section ==
    /\ pc = "monthly_section"
    /\ \/ /\ df_base = {}
          /\ pc' = "weekly_section"
          /\ UNCHANGED <<fault, start_date, end_date, warnings, charts,
                         filtered_monthly, table>>
       \/ /\ df_base # {}
          /\ \E s \in DateChoices \cup {MinMonth(df_base)} : \E e \in DateChoices :
               /\ start_date' = s
               /\ end_date' = e
               /\ warnings' = IF ~DateLE(s, e)
                              THEN warnings \cup {"Please select a valid start and end date."}
                              ELSE warnings
               /\ filtered_monthly' = filter_monthly(df_base, s, e)
          /\ \/ /\ monthly_views_raise(filtered_monthly')
                /\ pc' = "fault"
                /\ fault' = "EmptySelectionError"
                /\ UNCHANGED <<charts, table>>
             \/ /\ ~monthly_views_raise(filtered_monthly')
                /\ table' = monthly_summary_table(filtered_monthly')
                /\ charts' = charts \cup {"metrics", "line_chart", "summary_table"}
                /\ pc' = "weekly_section"
                /\ fault' = fault
    /\ UNCHANGED <<facts, open, nconn, nquery, df_base, df_daily, filtered_daily,
                   chart_x>>

\* lines 315-371 of app()
app_weekly_section ==
    /\ pc = "weekly_section"
    /\ \/ /\ df_daily # <<>>
          /\ \/ /\ start_date = None
                /\ pc' = "fault"
                /\ fault' = "TypeError"
                /\ UNCHANGED <<warnings, charts, filtered_daily, chart_x>>
             \/ /\ start_date # None
                /\ filtered_daily' = filter_daily(df_daily, start_date, end_date)
                /\ chart_x' = x_axis(filtered_daily', day_order)
                /\ charts' = charts \cup {"weekly_chart"}
                /\ pc' = "done"
                /\ UNCHANGED <<fault, warnings>>
       \/ /\ df_daily = <<>>
          /\ warnings' = warnings \cup {"No data available."}
          /\ pc' = "done"
          /\ UNCHANGED <<fault, charts, filtered_daily, chart_x>>
    /\ UNCHANGED <<facts, open, nconn, nquery, df_base, df_daily, start_date,
                   end_date, filtered_monthly, table>>

app == get_df_from_db \/ app_monthly_section \/ app_weekly_section

Next == Ingest \/ app

Spec == Init /\ [][Next]_vars

QueriesSucceeded ==
    \/ pc \in {"monthly_section", "weekly_section", "done"}
    \/ pc = "fault" /\ fault \in {"EmptySelectionError", "TypeError"}

RunEnded == pc \in {"done", "fault"}

InvalidRange == start_date # None /\ ~DateLE(start_date, end_date)

ValidRange == start_date # None /\ DateLE(start_date, end_date)

MonthlyViews == {"metrics", "line_chart", "summary_table"}

\* C2: a run that fetched an empty result set shows a warning and renders
\* no chart for that result set.
C2_EmptyResultWarns ==
    (RunEnded /\ QueriesSucceeded) =>
      /\ df_base = {} => (warnings # {} /\ charts \cap MonthlyViews = {})
      /\ df_daily = <<>> => (warnings # {} /\ "weekly_chart" \notin charts)

\* C3: with the start date after the end date the run warns, and the monthly
\* views and the day-of-week chart are built from the whole fetched result
\* sets.
C3_InvalidRangeFallsBack ==
    InvalidRange =>
      /\ "Please select a valid start and end date." \in warnings
      /\ filtered_monthly = df_base
      /\ MonthlyViews \subseteq charts
      /\ table = monthly_summary_table(df_base)
      /\ (pc = "done" /\ df_daily # <<>>) =>
            /\ filtered_daily = df_daily
            /\ "weekly_chart" \in charts

\* A finished run with start after end that drew both the table and the
\* day-of-week chart.
C3_Witness ==
    /\ pc = "done"
    /\ InvalidRange
    /\ Len(df_daily) = 2
    /\ Cardinality(df_base) = 2
    /\ "weekly_chart" \in charts

CanonicalPosition(name) == CHOOSE i \in DOMAIN WeekdayNames : WeekdayNames[i] = name

\* C7: the categories of the day-of-week chart are canonical day names, those
\* of the displayed rows, in Sunday-first order.
C7_SundayFirst ==
    "weekly_chart" \in charts =>
      /\ \A i \in DOMAIN chart_x : chart_x[i] \in Range(WeekdayNames)
      /\ \A i, j \in DOMAIN chart_x :
           i < j => CanonicalPosition(chart_x[i]) < CanonicalPosition(chart_x[j])
      /\ Range(chart_x) = {filtered_daily[i].day_name : i \in DOMAIN filtered_daily}

\* The warehouse returned a Monday row before a Sunday row; the chart shows
\* Sunday first.
C7_Witness ==
    /\ pc = "done"
    /\ Len(filtered_daily) = 2
    /\ filtered_daily[1].day_name = "Monday"
    /\ filtered_daily[2].day_name = "Sunday"
    /\ chart_x = <<"Sunday", "Monday">>

InFetch == pc \in {"monthly_query", "monthly_close", "daily_query", "daily_close"}

\* C8: at most one connection is open, no connection runs a second query, and
\* outside a fetch no connection is open.
C8_ConnectionPerFetch ==
    /\ Cardinality(open) <= 1
    /\ \A c \in DOMAIN nquery : nquery[c] <= 1
    /\ ~InFetch => open = {}

\* C9: no run in which both queries succeeded compares the dates while they
\* are still None.
C9_DatesSetBeforeComparison ==
    QueriesSucceeded => fault # "TypeError"

FirstOfMonth(r) == <<r.year_no, r.month_no, 1>>

DailyRowInRange(r) ==
    astype_int(r.year) >= start_date[1] /\ astype_int(r.year) <= end_date[1]

====
